---- MODULE Spec2Model ----
(***************************************************************************)
(* Model of src/wasm/key_utils.rs (tari-crypto): the hex-string boundary   *)
(* around Ristretto keys and Schnorr signatures.                           *)
(*                                                                         *)
(* The entry points are translated from key_utils.rs.  The collaborators   *)
(* they call (the hex codec, the Ristretto scalar and point types, the     *)
(* Schnorr signature type and the Blake256 digest) live outside that file  *)
(* and are modelled at a reduced scale: a scalar is one byte wide, a byte  *)
(* is two digits of radix Radix, and the group is the additive group of    *)
(* integers modulo the prime Order with base point 1.                      *)
(*                                                                         *)
(* A string is a sequence of one-character strings; a fixed piece of an    *)
(* error message is one element of such a sequence.  Option<T> is a set:   *)
(* None is {} and Some(x) is {x}.                                          *)
(***************************************************************************)
EXTENDS Integers, Sequences, FiniteSets, TLC

VARIABLES rng, log

vars == <<rng, log>>

\* rng is the number of draws OsRng has served.  log is what the host holds
\* of the calls it has made since it last let go of their results.

\* The host's view of one completed call: the entry point, the arguments,
\* the value returned and the collaborator calls made, in order.
Entry(op, args, out) ==
    [op |-> op, args |-> args, ret |-> out.ret, trace |-> out.trace]

\* ------------------------------------------------------------------ scale

\* Digits per position of the codec (16 in the program, scaled down).
Radix == 3

\* Order of the group and of the scalar field (a prime, as for Ristretto).
Order == 5

\* Width of a scalar, a point and a digest in bytes (32 in the program).
KeyBytes == 1

\* The longest message the host passes.
MaxMsgLen == 1

\* The number of draws from OsRng the model follows.
MaxDraws == 1

\* ------------------------------------------------------------------ codec

Digits == <<"0", "1", "2", "3", "4", "5", "6", "7",
            "8", "9", "a", "b", "c", "d", "e", "f">>

HexDigits == {Digits[i] : i \in 1..Radix}

DigitVal(c) == CHOOSE v \in 0..(Radix - 1) : Digits[v + 1] = c

ByteMax == Radix * Radix

\* tari_utilities::hex::from_hex: an even number of digits, two per byte.
from_hex(s) ==
    IF Len(s) % 2 = 1 \/ \E i \in 1..Len(s) : s[i] \notin HexDigits
    THEN [ok |-> FALSE, bytes |-> <<>>]
    ELSE [ok |-> TRUE,
          bytes |-> [i \in 1..(Len(s) \div 2) |->
                        DigitVal(s[2 * i - 1]) * Radix + DigitVal(s[2 * i])]]

\* tari_utilities::hex::to_hex: two digits per byte.
to_hex(bytes) ==
    [i \in 1..(2 * Len(bytes)) |->
        IF i % 2 = 1 THEN Digits[(bytes[(i + 1) \div 2] \div Radix) + 1]
                     ELSE Digits[(bytes[i \div 2] % Radix) + 1]]

\* ------------------------------------------------------------------ curve

Scalars == 0..(Order - 1)

\* RistrettoSecretKey::from_bytes: the width is checked and the value is
\* reduced modulo the group order, so every byte string of the right width
\* is accepted.
SecretKey_from_bytes(bytes) ==
    IF Len(bytes) # KeyBytes THEN [ok |-> FALSE, val |-> 0]
    ELSE [ok |-> TRUE, val |-> bytes[1] % Order]

SecretKey_from_hex(s) ==
    LET h == from_hex(s)
    IN  IF h.ok THEN SecretKey_from_bytes(h.bytes) ELSE [ok |-> FALSE, val |-> 0]

SecretKey_to_hex(k) == to_hex(<<k>>)

\* RistrettoPublicKey::from_bytes: only canonical encodings of group
\* elements decompress.  Point x is encoded as the even byte 2x.
PublicKey_from_bytes(bytes) ==
    IF Len(bytes) # KeyBytes THEN [ok |-> FALSE, val |-> 0]
    ELSE IF bytes[1] % 2 = 0 /\ bytes[1] \div 2 < Order
         THEN [ok |-> TRUE, val |-> bytes[1] \div 2]
         ELSE [ok |-> FALSE, val |-> 0]

PublicKey_from_hex(s) ==
    LET h == from_hex(s)
    IN  IF h.ok THEN PublicKey_from_bytes(h.bytes) ELSE [ok |-> FALSE, val |-> 0]

PublicKey_to_hex(P) == to_hex(<<2 * P>>)

\* RistrettoPublicKey::from_secret_key: k * G, with G = 1.
from_secret_key(k) == k % Order

\* Blake256::digest: a digest of KeyBytes bytes of the message bytes.
RECURSIVE DigestFold(_, _)
DigestFold(h, msg) ==
    IF msg = <<>> THEN h
    ELSE DigestFold((h * 3 + (IF Head(msg) = "a" THEN 1 ELSE 2)) % ByteMax, Tail(msg))

Blake256(msg) == <<DigestFold(1, msg)>>

\* SchnorrSignature::sign: s = r + e.k, with e the challenge read as a
\* scalar; a challenge that is no scalar encoding is rejected.
InvalidChallenge == <<"An invalid challenge was provided">>

Schnorr_sign(k, r, e) ==
    LET c == SecretKey_from_bytes(e)
    IN  IF ~c.ok THEN [ok |-> FALSE, err |-> InvalidChallenge, R |-> 0, s |-> 0]
        ELSE [ok |-> TRUE, err |-> <<>>,
              R |-> from_secret_key(r), s |-> (r + c.val * k) % Order]

\* SchnorrSignature::verify_challenge: s.G = R + e.P.
verify_challenge(R, s, P, e) ==
    LET c == SecretKey_from_bytes(e)
    IN  c.ok /\ from_secret_key(s) = (R + c.val * P) % Order

\* ------------------------------------------------------------ entry points
\* Each entry point is an operator from its arguments (and, where it draws
\* from OsRng, the scalar drawn) to the value it returns, the collaborator
\* calls it made, in order, and the number of draws it took from OsRng.

\* impl Default for SignResult
SignResult_default == [public_nonce |-> {}, signature |-> {}, error |-> <<>>]

\* RistrettoPublicKey::random_keypair(&mut OsRng), for the scalar drawn.
random_keypair(rnd) == <<rnd, from_secret_key(rnd)>>

generate_keypair(rnd) ==
    LET kp == random_keypair(rnd)
    IN  [ret |-> <<SecretKey_to_hex(kp[1]), PublicKey_to_hex(kp[2])>>,
         trace |-> <<"random_keypair">>,
         draws |-> 1]

\* The returned JsValue is the serialized key, or false: {} stands for false.
pubkey_from_hex(hex) ==
    LET pk == PublicKey_from_hex(hex)
    IN  [ret |-> IF pk.ok THEN {PublicKey_to_hex(pk.val)} ELSE {},
         trace |-> <<"PublicKey::from_hex">>,
         draws |-> 0]

\* pubkey_from_secret decoding its argument as a public key.
pubkey_from_secret_as_public_key(k) ==
    LET pk == PublicKey_from_hex(k)
    IN  [ret |-> IF pk.ok THEN {PublicKey_to_hex(pk.val)} ELSE {},
         trace |-> <<"PublicKey::from_hex">>,
         draws |-> 0]

pubkey_from_secret(k) ==
    LET sk == SecretKey_from_hex(k)
    IN  [ret |-> IF sk.ok THEN {PublicKey_to_hex(from_secret_key(sk.val))} ELSE {},
         trace |-> IF sk.ok THEN <<"SecretKey::from_hex", "from_secret_key">>
                            ELSE <<"SecretKey::from_hex">>,
         draws |-> 0]

\* sign_with_key returning the public nonce of the signature object in the
\* signature field.
sign_with_key_nonce_as_signature(k, e, r, result, rnd) ==
    LET kp == IF r # {} THEN <<CHOOSE x \in r : TRUE,
                               from_secret_key(CHOOSE x \in r : TRUE)>>
                        ELSE random_keypair(rnd)
        sig == Schnorr_sign(k, kp[1], e)
    IN  [result |->
            IF ~sig.ok
            THEN [result EXCEPT !.error = <<"Could not create signature. ">> \o sig.err]
            ELSE [result EXCEPT !.public_nonce = {PublicKey_to_hex(kp[2])},
                                !.signature = {PublicKey_to_hex(sig.R)}],
         trace |-> <<IF r # {} THEN "from_secret_key" ELSE "random_keypair",
                     "Schnorr::sign">>,
         draws |-> IF r # {} THEN 0 ELSE 1]

\* sign_with_key passing the nonce and the key to Schnorr sign in each
\* other's place.
sign_with_key_swapped_args(k, e, r, result, rnd) ==
    LET kp == IF r # {} THEN <<CHOOSE x \in r : TRUE,
                               from_secret_key(CHOOSE x \in r : TRUE)>>
                        ELSE random_keypair(rnd)
        sig == Schnorr_sign(kp[1], k, e)
    IN  [result |->
            IF ~sig.ok
            THEN [result EXCEPT !.error = <<"Could not create signature. ">> \o sig.err]
            ELSE [result EXCEPT !.public_nonce = {PublicKey_to_hex(kp[2])},
                                !.signature = {SecretKey_to_hex(sig.s)}],
         trace |-> <<IF r # {} THEN "from_secret_key" ELSE "random_keypair",
                     "Schnorr::sign">>,
         draws |-> IF r # {} THEN 0 ELSE 1]

\* sign_with_key writing the public nonce into the result before it signs.
sign_with_key_early_nonce(k, e, r, result, rnd) ==
    LET kp == IF r # {} THEN <<CHOOSE x \in r : TRUE,
                               from_secret_key(CHOOSE x \in r : TRUE)>>
                        ELSE random_keypair(rnd)
        sig == Schnorr_sign(k, kp[1], e)
        early == [result EXCEPT !.public_nonce = {PublicKey_to_hex(kp[2])}]
    IN  [result |->
            IF ~sig.ok
            THEN [early EXCEPT !.error = <<"Could not create signature. ">> \o sig.err]
            ELSE [early EXCEPT !.signature = {SecretKey_to_hex(sig.s)}],
         trace |-> <<IF r # {} THEN "from_secret_key" ELSE "random_keypair",
                     "Schnorr::sign">>,
         draws |-> IF r # {} THEN 0 ELSE 1]

\* r is Option<&RistrettoSecretKey>; rnd is what OsRng yields if it is asked.
sign_with_key(k, e, r, result, rnd) ==
    LET kp == IF r # {} THEN <<CHOOSE x \in r : TRUE,
                               from_secret_key(CHOOSE x \in r : TRUE)>>
                        ELSE random_keypair(rnd)
        sig == Schnorr_sign(k, kp[1], e)
    IN  [result |->
            IF ~sig.ok
            THEN [result EXCEPT !.error = <<"Could not create signature. ">> \o sig.err]
            ELSE [result EXCEPT !.public_nonce = {PublicKey_to_hex(kp[2])},
                                !.signature = {SecretKey_to_hex(sig.s)}],
         trace |-> <<IF r # {} THEN "from_secret_key" ELSE "random_keypair",
                     "Schnorr::sign">>,
         draws |-> IF r # {} THEN 0 ELSE 1]

sign_message_with_key(k, msg, r, result, rnd) ==
    LET e == Blake256(msg)
        out == sign_with_key(k, e, r, result, rnd)
    IN  [out EXCEPT !.trace = <<"Blake256::digest">> \o out.trace]

\* sign drawing the nonce before it decodes the private key.
sign_draws_before_decoding(private_key, msg, rnd) ==
    LET result == SignResult_default
        k == SecretKey_from_hex(private_key)
    IN  IF ~k.ok
        THEN [ret |-> [result EXCEPT !.error = <<"Invalid private key">>],
              trace |-> <<"random_keypair", "SecretKey::from_hex">>,
              draws |-> 1]
        ELSE LET out == sign_message_with_key(k.val, msg, {}, result, rnd)
             IN  [ret |-> out.result,
                  trace |-> <<"SecretKey::from_hex">> \o out.trace,
                  draws |-> out.draws]

sign(private_key, msg, rnd) ==
    LET result == SignResult_default
        k == SecretKey_from_hex(private_key)
    IN  IF ~k.ok
        THEN [ret |-> [result EXCEPT !.error = <<"Invalid private key">>],
              trace |-> <<"SecretKey::from_hex">>,
              draws |-> 0]
        ELSE LET out == sign_message_with_key(k.val, msg, {}, result, rnd)
             IN  [ret |-> out.result,
                  trace |-> <<"SecretKey::from_hex">> \o out.trace,
                  draws |-> out.draws]

\* sign_challenge_with_nonce passing no nonce on, so that one is drawn.
sign_challenge_with_nonce_random_nonce(private_key, private_nonce, challenge_as_hex) ==
    LET result == SignResult_default
        k == SecretKey_from_hex(private_key)
        r == SecretKey_from_hex(private_nonce)
        e == from_hex(challenge_as_hex)
    IN  IF ~k.ok
        THEN [ret |-> [result EXCEPT !.error = <<"Invalid private key">>],
              trace |-> <<"SecretKey::from_hex">>,
              draws |-> 0]
        ELSE IF ~r.ok
        THEN [ret |-> [result EXCEPT !.error = <<"Invalid private nonce">>],
              trace |-> <<"SecretKey::from_hex", "SecretKey::from_hex">>,
              draws |-> 0]
        ELSE IF ~e.ok
        THEN [ret |-> [result EXCEPT !.error = <<"Challenge was not valid HEX">>],
              trace |-> <<"SecretKey::from_hex", "SecretKey::from_hex", "from_hex">>,
              draws |-> 0]
        ELSE LET out == sign_with_key(k.val, e.bytes, {}, result, 0)
             IN  [ret |-> out.result,
                  trace |-> <<"SecretKey::from_hex", "SecretKey::from_hex", "from_hex">>
                            \o out.trace,
                  draws |-> out.draws]

\* sign_challenge_with_nonce decoding the nonce before the private key.
sign_challenge_with_nonce_nonce_first(private_key, private_nonce, challenge_as_hex) ==
    LET result == SignResult_default
        k == SecretKey_from_hex(private_key)
        r == SecretKey_from_hex(private_nonce)
        e == from_hex(challenge_as_hex)
    IN  IF ~r.ok
        THEN [ret |-> [result EXCEPT !.error = <<"Invalid private nonce">>],
              trace |-> <<"SecretKey::from_hex">>,
              draws |-> 0]
        ELSE IF ~k.ok
        THEN [ret |-> [result EXCEPT !.error = <<"Invalid private key">>],
              trace |-> <<"SecretKey::from_hex", "SecretKey::from_hex">>,
              draws |-> 0]
        ELSE IF ~e.ok
        THEN [ret |-> [result EXCEPT !.error = <<"Challenge was not valid HEX">>],
              trace |-> <<"SecretKey::from_hex", "SecretKey::from_hex", "from_hex">>,
              draws |-> 0]
        ELSE LET out == sign_with_key(k.val, e.bytes, {r.val}, result, 0)
             IN  [ret |-> out.result,
                  trace |-> <<"SecretKey::from_hex", "SecretKey::from_hex", "from_hex">>
                            \o out.trace,
                  draws |-> out.draws]

sign_challenge_with_nonce(private_key, private_nonce, challenge_as_hex) ==
    LET result == SignResult_default
        k == SecretKey_from_hex(private_key)
        r == SecretKey_from_hex(private_nonce)
        e == from_hex(challenge_as_hex)
    IN  IF ~k.ok
        THEN [ret |-> [result EXCEPT !.error = <<"Invalid private key">>],
              trace |-> <<"SecretKey::from_hex">>,
              draws |-> 0]
        ELSE IF ~r.ok
        THEN [ret |-> [result EXCEPT !.error = <<"Invalid private nonce">>],
              trace |-> <<"SecretKey::from_hex", "SecretKey::from_hex">>,
              draws |-> 0]
        ELSE IF ~e.ok
        THEN [ret |-> [result EXCEPT !.error = <<"Challenge was not valid HEX">>],
              trace |-> <<"SecretKey::from_hex", "SecretKey::from_hex", "from_hex">>,
              draws |-> 0]
        ELSE LET out == sign_with_key(k.val, e.bytes, {r.val}, result, 0)
             IN  [ret |-> out.result,
                  trace |-> <<"SecretKey::from_hex", "SecretKey::from_hex", "from_hex">>
                            \o out.trace,
                  draws |-> out.draws]

\* check_signature reporting a signature that does not verify as an error.
check_signature_error_on_invalid(pub_nonce, signature, pub_key, msg) ==
    LET result == [result |-> FALSE, error |-> <<>>]
        R == PublicKey_from_hex(pub_nonce)
        P == PublicKey_from_hex(pub_key)
        s == SecretKey_from_hex(signature)
    IN  IF ~R.ok
        THEN [ret |-> [result EXCEPT !.error = pub_nonce \o <<" is not a valid public nonce">>],
              trace |-> <<"PublicKey::from_hex">>,
              draws |-> 0]
        ELSE IF ~P.ok
        THEN [ret |-> [result EXCEPT !.error = pub_key \o <<" is not a valid public key">>],
              trace |-> <<"PublicKey::from_hex", "PublicKey::from_hex">>,
              draws |-> 0]
        ELSE IF ~s.ok
        THEN [ret |-> [result EXCEPT !.error =
                          signature \o <<" is not a valid hex representation of a signature">>],
              trace |-> <<"PublicKey::from_hex", "PublicKey::from_hex", "SecretKey::from_hex">>,
              draws |-> 0]
        ELSE [ret |-> IF verify_challenge(R.val, s.val, P.val, Blake256(msg))
                      THEN [result EXCEPT !.result = TRUE]
                      ELSE [result EXCEPT !.error = <<"Signature is not valid">>],
              trace |-> <<"PublicKey::from_hex", "PublicKey::from_hex", "SecretKey::from_hex",
                          "Blake256::digest", "verify_challenge">>,
              draws |-> 0]

\* check_signature verifying against the digest of the empty message.
check_signature_ignores_msg(pub_nonce, signature, pub_key, msg) ==
    LET result == [result |-> FALSE, error |-> <<>>]
        R == PublicKey_from_hex(pub_nonce)
        P == PublicKey_from_hex(pub_key)
        s == SecretKey_from_hex(signature)
    IN  IF ~R.ok
        THEN [ret |-> [result EXCEPT !.error = pub_nonce \o <<" is not a valid public nonce">>],
              trace |-> <<"PublicKey::from_hex">>,
              draws |-> 0]
        ELSE IF ~P.ok
        THEN [ret |-> [result EXCEPT !.error = pub_key \o <<" is not a valid public key">>],
              trace |-> <<"PublicKey::from_hex", "PublicKey::from_hex">>,
              draws |-> 0]
        ELSE IF ~s.ok
        THEN [ret |-> [result EXCEPT !.error =
                          signature \o <<" is not a valid hex representation of a signature">>],
              trace |-> <<"PublicKey::from_hex", "PublicKey::from_hex", "SecretKey::from_hex">>,
              draws |-> 0]
        ELSE [ret |-> [result EXCEPT !.result =
                          verify_challenge(R.val, s.val, P.val, Blake256(<<>>))],
              trace |-> <<"PublicKey::from_hex", "PublicKey::from_hex", "SecretKey::from_hex",
                          "Blake256::digest", "verify_challenge">>,
              draws |-> 0]

\* check_signature decoding the public key before the public nonce.
check_signature_key_first(pub_nonce, signature, pub_key, msg) ==
    LET result == [result |-> FALSE, error |-> <<>>]
        R == PublicKey_from_hex(pub_nonce)
        P == PublicKey_from_hex(pub_key)
        s == SecretKey_from_hex(signature)
    IN  IF ~P.ok
        THEN [ret |-> [result EXCEPT !.error = pub_key \o <<" is not a valid public key">>],
              trace |-> <<"PublicKey::from_hex">>,
              draws |-> 0]
        ELSE IF ~R.ok
        THEN [ret |-> [result EXCEPT !.error = pub_nonce \o <<" is not a valid public nonce">>],
              trace |-> <<"PublicKey::from_hex", "PublicKey::from_hex">>,
              draws |-> 0]
        ELSE IF ~s.ok
        THEN [ret |-> [result EXCEPT !.error =
                          signature \o <<" is not a valid hex representation of a signature">>],
              trace |-> <<"PublicKey::from_hex", "PublicKey::from_hex", "SecretKey::from_hex">>,
              draws |-> 0]
        ELSE [ret |-> [result EXCEPT !.result =
                          verify_challenge(R.val, s.val, P.val, Blake256(msg))],
              trace |-> <<"PublicKey::from_hex", "PublicKey::from_hex", "SecretKey::from_hex",
                          "Blake256::digest", "verify_challenge">>,
              draws |-> 0]

check_signature(pub_nonce, signature, pub_key, msg) ==
    LET result == [result |-> FALSE, error |-> <<>>]
        R == PublicKey_from_hex(pub_nonce)
        P == PublicKey_from_hex(pub_key)
        s == SecretKey_from_hex(signature)
    IN  IF ~R.ok
        THEN [ret |-> [result EXCEPT !.error = pub_nonce \o <<" is not a valid public nonce">>],
              trace |-> <<"PublicKey::from_hex">>,
              draws |-> 0]
        ELSE IF ~P.ok
        THEN [ret |-> [result EXCEPT !.error = pub_key \o <<" is not a valid public key">>],
              trace |-> <<"PublicKey::from_hex", "PublicKey::from_hex">>,
              draws |-> 0]
        ELSE IF ~s.ok
        THEN [ret |-> [result EXCEPT !.error =
                          signature \o <<" is not a valid hex representation of a signature">>],
              trace |-> <<"PublicKey::from_hex", "PublicKey::from_hex", "SecretKey::from_hex">>,
              draws |-> 0]
        ELSE [ret |-> [result EXCEPT !.result =
                          verify_challenge(R.val, s.val, P.val, Blake256(msg))],
              trace |-> <<"PublicKey::from_hex", "PublicKey::from_hex", "SecretKey::from_hex",
                          "Blake256::digest", "verify_challenge">>,
              draws |-> 0]

\* ------------------------------------------------------------------- host
\* What the host passes across the boundary.

StringsUpTo(chars, n) == UNION {[1..m -> chars] : m \in 0..n}

\* Every string of digits and of one character that is no digit, up to the
\* width of a key in hex.
HexInputs == StringsUpTo(HexDigits \cup {"z"}, 2 * KeyBytes)

Messages == StringsUpTo({"a", "b"}, MaxMsgLen)

\* s with the character at one position replaced by another one of chars.
Replaced(s, i, c) == [j \in 1..Len(s) |-> IF j = i THEN c ELSE s[j]]

Flips(s, chars) ==
    {Replaced(s, i, c) : i \in 1..Len(s), c \in chars} \ {s}

Idle == log = <<>>

Succeeded(e) == e.ret.signature # {}

\* The only element of Some(x).
Unwrap(opt) == CHOOSE x \in opt : TRUE

\* The arguments the host passes to its next call of op.  A first call takes
\* any arguments.  A second call uses what the first returned: a signature is
\* checked, as returned or with one digit changed, against every message; a
\* challenge is signed with the key and nonce that have just signed one.
HostArgs(op) ==
    IF Idle THEN
        CASE op = "pubkey_from_hex"    -> {<<h>> : h \in HexInputs}
          [] op = "pubkey_from_secret" -> {<<k>> : k \in HexInputs}
          [] op = "sign"               -> HexInputs \X Messages
          [] op = "sign_challenge_with_nonce" -> HexInputs \X HexInputs \X HexInputs
          [] op = "check_signature"    -> HexInputs \X HexInputs \X HexInputs \X Messages
    ELSE IF Len(log) # 1 THEN {}
    ELSE LET first == log[1]
             signed == first.op \in {"sign", "sign_challenge_with_nonce"}
                       /\ Succeeded(first)
         IN  CASE op = "check_signature" /\ signed ->
                    {<<Unwrap(first.ret.public_nonce), s,
                       Unwrap(pubkey_from_secret(first.args[1]).ret), m>> :
                       s \in {Unwrap(first.ret.signature)}
                             \cup Flips(Unwrap(first.ret.signature), HexDigits),
                       m \in Messages}
               [] op = "sign_challenge_with_nonce" /\ first.op = op /\ signed ->
                    {<<first.args[1], first.args[2], c>> : c \in HexInputs}
               [] OTHER -> {}

\* --------------------------------------------------------------- actions

Init ==
    /\ rng = 0
    /\ log = <<>>

\* A completed call: OsRng has been drawn from out.draws times.
Call(op, args, out) ==
    /\ rng + out.draws <= MaxDraws
    /\ rng' = rng + out.draws
    /\ log' = Append(log, Entry(op, args, out))

GenerateKeypair ==
    \E rnd \in Scalars :
        /\ Idle
        /\ Call("generate_keypair", <<>>, generate_keypair(rnd))

PubkeyFromHex ==
    \E a \in HostArgs("pubkey_from_hex") :
        Call("pubkey_from_hex", a, pubkey_from_hex(a[1]))

PubkeyFromSecret ==
    \E a \in HostArgs("pubkey_from_secret") :
        Call("pubkey_from_secret", a, pubkey_from_secret(a[1]))

Sign ==
    \E a \in HostArgs("sign"), rnd \in Scalars :
        Call("sign", a, sign(a[1], a[2], rnd))

SignChallengeWithNonce ==
    \E a \in HostArgs("sign_challenge_with_nonce") :
        Call("sign_challenge_with_nonce", a, sign_challenge_with_nonce(a[1], a[2], a[3]))

CheckSignature ==
    \E a \in HostArgs("check_signature") :
        Call("check_signature", a, check_signature(a[1], a[2], a[3], a[4]))

\* The host is done with what the calls returned; the service kept nothing.
Return ==
    /\ ~Idle
    /\ log' = <<>>
    /\ UNCHANGED rng

Next ==
    \/ GenerateKeypair
    \/ PubkeyFromHex
    \/ PubkeyFromSecret
    \/ Sign
    \/ SignChallengeWithNonce
    \/ CheckSignature
    \/ Return

Spec == Init /\ [][Next]_vars

\* ---------------------------------------------------------------- claims

Entries == {log[i] : i \in 1..Len(log)}

EntriesOf(op) == {e \in Entries : e.op = op}

Verified == [result |-> TRUE, error |-> <<>>]

Rejected == [result |-> FALSE, error |-> <<>>]

\* The host has signed a message and then checked exactly what sign
\* returned, against the public key of the signing key and that message.
RoundTrip ==
    /\ Len(log) = 2
    /\ log[1].op = "sign"
    /\ log[2].op = "check_signature"
    /\ log[2].args = <<Unwrap(log[1].ret.public_nonce), Unwrap(log[1].ret.signature),
                       Unwrap(pubkey_from_secret(log[1].args[1]).ret), log[1].args[2]>>

\* C1: whenever sign(k, m) returns a public nonce N and a signature S,
\* check_signature(N, S, pubkey_from_secret(k), m) returns result = true and
\* error = "", whichever nonce OsRng drew inside sign.
C1_SignThenVerify == RoundTrip => log[2].ret = Verified

\* C1 witness: a round trip with a key that is not zero and a nonce that is
\* not zero has been made and has verified.
C1_Witness ==
    /\ RoundTrip
    /\ log[2].ret = Verified
    /\ SecretKey_from_hex(log[1].args[1]).val # 0
    /\ PublicKey_from_hex(log[2].args[1]).val # 0

\* s with one of its digits replaced by another digit.
HexFlips(s) ==
    {Replaced(s, i, c) : i \in {j \in 1..Len(s) : s[j] \in HexDigits}, c \in HexDigits}
        \ {s}

\* The tuples (nonce, signature, key, message) from which a has been made by
\* changing one digit of the signature, or one character of the message.
SignatureFlipped(a) == {<<a[1], s, a[3], a[4]>> : s \in HexFlips(a[2])}

MessageFlipped(a) == {<<a[1], a[2], a[3], m>> : m \in Flips(a[4], {"a", "b"})}

Verifies(a) == check_signature(a[1], a[2], a[3], a[4]).ret = Verified

\* The challenge of a message, as the scalar verify_challenge reads.
ChallengeOf(msg) == SecretKey_from_bytes(Blake256(msg)).val

NonceError(a) == a[1] \o <<" is not a valid public nonce">>

KeyError(a) == a[3] \o <<" is not a valid public key">>

SignatureError(a) == a[2] \o <<" is not a valid hex representation of a signature">>

\* C3: check_signature decodes the public nonce, then the public key, then
\* the signature, and stops at the first that does not decode: the error
\* names the nonce whenever the nonce does not decode, the key when the nonce
\* decodes and the key does not, and the signature only when nonce and key
\* decode and the signature does not; result is false and neither the digest
\* nor verify_challenge is evaluated.
C3_ValidationOrder ==
    \A e \in EntriesOf("check_signature") :
        LET R == PublicKey_from_hex(e.args[1]).ok
            P == PublicKey_from_hex(e.args[3]).ok
            s == SecretKey_from_hex(e.args[2]).ok
            stopped == /\ e.ret.result = FALSE
                       /\ "Blake256::digest" \notin {e.trace[i] : i \in 1..Len(e.trace)}
                       /\ "verify_challenge" \notin {e.trace[i] : i \in 1..Len(e.trace)}
        IN  /\ ~R => e.ret.error = NonceError(e.args) /\ stopped /\ Len(e.trace) = 1
            /\ R /\ ~P => e.ret.error = KeyError(e.args) /\ stopped /\ Len(e.trace) = 2
            /\ R /\ P /\ ~s => e.ret.error = SignatureError(e.args) /\ stopped
                                /\ Len(e.trace) = 3
            /\ e.ret.error = SignatureError(e.args) => R /\ P /\ ~s
            /\ e.ret.error = KeyError(e.args) => R /\ ~P

\* C3 witness: check_signature has been given a nonce, a key and a signature
\* none of which decodes, and has named the nonce.
C3_Witness ==
    \E e \in EntriesOf("check_signature") :
        /\ ~PublicKey_from_hex(e.args[1]).ok
        /\ ~PublicKey_from_hex(e.args[3]).ok
        /\ ~SecretKey_from_hex(e.args[2]).ok
        /\ e.ret.error = NonceError(e.args)

\* C4: sign_challenge_with_nonce decodes the private key, then the nonce,
\* then the challenge, and stops at the first that does not decode, with
\* "Invalid private key", "Invalid private nonce" or "Challenge was not valid
\* HEX"; public_nonce and signature are None and Schnorr sign is not called.
C4_ValidationOrder ==
    \A e \in EntriesOf("sign_challenge_with_nonce") :
        LET k == SecretKey_from_hex(e.args[1]).ok
            r == SecretKey_from_hex(e.args[2]).ok
            c == from_hex(e.args[3]).ok
            stopped == /\ e.ret.public_nonce = {}
                       /\ e.ret.signature = {}
                       /\ "Schnorr::sign" \notin {e.trace[i] : i \in 1..Len(e.trace)}
        IN  /\ ~k => e.ret.error = <<"Invalid private key">> /\ stopped /\ Len(e.trace) = 1
            /\ k /\ ~r => e.ret.error = <<"Invalid private nonce">> /\ stopped
                          /\ Len(e.trace) = 2
            /\ k /\ r /\ ~c => e.ret.error = <<"Challenge was not valid HEX">> /\ stopped
                               /\ Len(e.trace) = 3
            /\ e.ret.error = <<"Challenge was not valid HEX">> => k /\ r /\ ~c
            /\ e.ret.error = <<"Invalid private nonce">> => k /\ ~r

\* C4 witness: sign_challenge_with_nonce has been given a key, a nonce and a
\* challenge none of which decodes, and has named the key.
C4_Witness ==
    \E e \in EntriesOf("sign_challenge_with_nonce") :
        /\ ~SecretKey_from_hex(e.args[1]).ok
        /\ ~SecretKey_from_hex(e.args[2]).ok
        /\ ~from_hex(e.args[3]).ok
        /\ e.ret.error = <<"Invalid private key">>

\* The labels of the collaborator calls an entry point made.
Called(e) == {e.trace[i] : i \in 1..Len(e.trace)}

\* The scalar a private key or nonce argument decodes to.
ScalarOf(hex) == SecretKey_from_hex(hex).val

\* The host has signed two challenges, which Schnorr sign accepts and which
\* differ as strings, with one private key and one nonce.
NonceReused ==
    /\ Len(log) = 2
    /\ log[1].op = "sign_challenge_with_nonce"
    /\ log[2].op = "sign_challenge_with_nonce"
    /\ log[1].args[1] = log[2].args[1]
    /\ log[1].args[2] = log[2].args[2]
    /\ log[1].args[3] # log[2].args[3]
    /\ SecretKey_from_hex(log[1].args[3]).ok
    /\ SecretKey_from_hex(log[2].args[3]).ok

\* The signature a call of sign_challenge_with_nonce returned satisfies
\* verify_challenge for the challenge it was given and the public key of the
\* private key it was given.
ValidForChallenge(e) ==
    /\ Succeeded(e)
    /\ verify_challenge(PublicKey_from_hex(Unwrap(e.ret.public_nonce)).val,
                        SecretKey_from_hex(Unwrap(e.ret.signature)).val,
                        PublicKey_from_hex(Unwrap(pubkey_from_secret(e.args[1]).ret)).val,
                        from_hex(e.args[3]).bytes)

IsSuccess(r) == r.public_nonce # {} /\ r.signature # {} /\ r.error = <<>>

IsFailure(r) == r.public_nonce = {} /\ r.signature = {} /\ r.error # <<>>

\* Schnorr sign was called and rejected its input.
SchnorrSignFailed(e) ==
    /\ e.op = "sign_challenge_with_nonce"
    /\ "Schnorr::sign" \in Called(e)
    /\ ~Schnorr_sign(ScalarOf(e.args[1]), ScalarOf(e.args[2]), from_hex(e.args[3]).bytes).ok

\* C6: every SignResult of sign and of sign_challenge_with_nonce is a success
\* (nonce and signature present, error empty) or a failure (both absent,
\* error not empty); sign with a key that does not decode returns the failure
\* "Invalid private key"; a failure of Schnorr sign returns a failure whose
\* error begins "Could not create signature. ".
C6_ResultShape ==
    \A e \in EntriesOf("sign") \cup EntriesOf("sign_challenge_with_nonce") :
        /\ IsSuccess(e.ret) \/ IsFailure(e.ret)
        /\ (e.op = "sign" /\ ~SecretKey_from_hex(e.args[1]).ok)
              => IsFailure(e.ret) /\ e.ret.error = <<"Invalid private key">>
        /\ SchnorrSignFailed(e)
              => IsFailure(e.ret) /\ Head(e.ret.error) = "Could not create signature. "

\* C6 witness: Schnorr sign has rejected a challenge.
C6_Witness ==
    \E e \in EntriesOf("sign_challenge_with_nonce") :
        SchnorrSignFailed(e) /\ IsFailure(e.ret)

\* C7: check_signature returns error = "" exactly when the nonce, the key and
\* the signature all decode, and result is then what verify_challenge
\* returns; result = true never comes with an error.
C7_ErrorIffUndecodable ==
    \A e \in EntriesOf("check_signature") :
        LET R == PublicKey_from_hex(e.args[1])
            P == PublicKey_from_hex(e.args[3])
            s == SecretKey_from_hex(e.args[2])
        IN  /\ e.ret.error = <<>> <=> (R.ok /\ P.ok /\ s.ok)
            /\ (R.ok /\ P.ok /\ s.ok)
                  => e.ret.result = verify_challenge(R.val, s.val, P.val, Blake256(e.args[4]))
            /\ e.ret.result => e.ret.error = <<>>

\* C7 witness: a signature that decodes and does not verify has been
\* rejected without an error.
C7_Witness ==
    \E e \in EntriesOf("check_signature") :
        /\ PublicKey_from_hex(e.args[1]).ok
        /\ PublicKey_from_hex(e.args[3]).ok
        /\ SecretKey_from_hex(e.args[2]).ok
        /\ e.ret.result = FALSE
        /\ e.ret.error = <<>>

\* C8: pubkey_from_secret returns Some(hex of the public key of k) for every
\* string that decodes to a secret key k, and None for every other string:
\* what it returns is a function of its argument alone.
C8_PubkeyFromSecret ==
    \A e \in EntriesOf("pubkey_from_secret") :
        LET k == SecretKey_from_hex(e.args[1])
        IN  /\ k.ok => e.ret = {PublicKey_to_hex(from_secret_key(k.val))}
            /\ ~k.ok => e.ret = {}

\* C8 witness: pubkey_from_secret has derived the key of a secret key that
\* is not zero, after OsRng has been drawn from.
C8_Witness ==
    \E e \in EntriesOf("pubkey_from_secret") :
        /\ rng > 0
        /\ e.ret # {}
        /\ ScalarOf(e.args[1]) # 0

\* The calls that are not to draw from OsRng.
RngFree(e) ==
    \/ e.op \in {"pubkey_from_hex", "pubkey_from_secret",
                 "sign_challenge_with_nonce", "check_signature"}
    \/ e.op = "sign" /\ ~SecretKey_from_hex(e.args[1]).ok

\* What a call returns when it is the only call ever made.
ResultAlone(e) ==
    CASE e.op = "pubkey_from_hex" -> pubkey_from_hex(e.args[1]).ret
      [] e.op = "pubkey_from_secret" -> pubkey_from_secret(e.args[1]).ret
      [] e.op = "sign" -> sign(e.args[1], e.args[2], 0).ret
      [] e.op = "sign_challenge_with_nonce" ->
            sign_challenge_with_nonce(e.args[1], e.args[2], e.args[3]).ret
      [] e.op = "check_signature" ->
            check_signature(e.args[1], e.args[2], e.args[3], e.args[4]).ret

ChallengeHex(msg) == to_hex(Blake256(msg))

====
